---- MODULE Spec2Model ----
(***************************************************************************)
(* Science in Motion: the animation generators and the CLI that selects    *)
(* them.  The model follows one Python process: either the CLI script      *)
(* (examples/generate_animations.py), the body of its main() with the      *)
(* repository's generator functions bound to the names it calls, or one    *)
(* generator function called on its own (each module's __main__ block).    *)
(* A generator run is modelled by its effects on the process and the file  *)
(* system: figure creation (which reads rcParams['figure.dpi']), directory *)
(* creation, and the chain of save attempts with its try/except structure. *)
(* Further specifications follow single computations inside generators:    *)
(* the Lorenz Euler loop, the Mandelbrot pixel loop, and the init/update   *)
(* callbacks of the pendulum, Lorenz, Fourier, triangle and wave function  *)
(* animations as FuncAnimation drives them.                                *)
(***************************************************************************)
EXTENDS Integers, Sequences, FiniteSets, TLC

VARIABLES
    entry,      \* how the process was started: "script", "main" or "direct"
    flags,      \* the selection flags given on the command line
    output,     \* args.output
    terms,      \* args.terms
    pc,         \* position of the process
    idx,        \* the if-block of main() that runs next (1..6, 7 = past the last)
    calls,      \* calls made by main(): sequence of [gen, args]
    dirs0,      \* directories existing when the process starts
    dirs,       \* directories existing now
    files,      \* output files written: set of [dir, gen, fmt]
    rcDpi,      \* rcParams['figure.dpi'] of the process
    figDpi,     \* per generator, the dpi its figure was created with (0: no figure)
    stdout,     \* what was printed: set of [msg, gen]
    gen,        \* the generator invocation in progress (or the last one)
    exc,        \* the exception that terminated the process, or "none"
    xs, ys, zs, \* Lorenz trajectory arrays (fixed point, 1/Scale units)
    li,         \* Lorenz Euler loop variable i
    writes,     \* per index, how often the Euler loop assigned it
    reads,      \* per index, the index the assigned values were computed from
    mandel,     \* mandelbrot_numpy: arguments, loop variables, z and result
    pendulumAnim, \* double pendulum: the trace history and the frame drawn
    lorenzAnim, \* Lorenz animation: the frame drawn, the path and the marker
    fourierAnim, \* Fourier animation: circles, vectors, dots and connector
    triangleAnim, \* triangle challenge: problem_idx and the problem drawn
    waveAnim    \* wave function: particle_data and bg_particle_data

vars == <<entry, flags, output, terms, pc, idx, calls, dirs0, dirs, files, rcDpi,
          figDpi, stdout, gen, exc, xs, ys, zs, li, writes, reads,
          mandel, pendulumAnim, lorenzAnim, fourierAnim, triangleAnim, waveAnim>>

cliVars == <<entry, flags, output, terms, pc, idx, calls, dirs0, dirs, files, rcDpi,
             figDpi, stdout, gen, exc>>

lorenzVars == <<xs, ys, zs, li, writes, reads>>

simVars == <<mandel, pendulumAnim, lorenzAnim, fourierAnim, triangleAnim, waveAnim>>

(***************************************************************************)
(* Bounds                                                                  *)
(***************************************************************************)
\* largest --terms value tried (the colour list has 12 entries)
MaxTerms == 13

(***************************************************************************)
(* The generators                                                          *)
(***************************************************************************)
\* the six if-blocks of main(), in source order
CliGenerators == <<"pendulum", "lorenz", "mandelbrot", "quantum", "fourier", "trig">>

CliSet == {CliGenerators[i] : i \in 1..Len(CliGenerators)}

Flags == CliSet \cup {"all"}

Generators ==
    CliSet \cup {"sine_circle", "sine_cosine", "trig_functions", "advanced_trig",
                 "hyperbolic", "projectile", "triangle"}

\* values of --output: the default and another one
OutputDirs == {"output", "custom"}

\* the parameter list of each generator function's def
Params(g) ==
    CASE g \in {"pendulum", "lorenz"} -> <<>>
      [] g = "fourier" -> <<"output_dir", "n_terms">>
      [] OTHER -> <<"output_dir">>

TakesOutputDir(g) == Len(Params(g)) >= 1

\* the module-level rcParams['figure.dpi'] assignment of g's module (0: none)
ModuleDpi(g) ==
    IF g \in {"fourier", "trig", "sine_circle", "sine_cosine", "trig_functions",
              "advanced_trig"}
    THEN 150 ELSE 0

\* the rcParams['figure.dpi'] assignment inside g's function body (0: none)
RuntimeDpi(g) == IF g = "mandelbrot" THEN 100 ELSE 0

\* exception classes a save attempt can raise
Exc == {"FileNotFoundError", "RuntimeError", "PermissionError"}

\* what a missing ffmpeg raises at save time (the two classes the code names)
EncoderMissing == {"FileNotFoundError", "RuntimeError"}

\* the exception classes the except clause around the MP4 save catches
Caught(g) ==
    CASE g \in {"pendulum", "lorenz", "mandelbrot", "hyperbolic"} -> {}
      [] g = "quantum" -> {"FileNotFoundError"}
      [] g \in {"projectile", "triangle"} -> Exc
      [] OTHER -> {"RuntimeError", "FileNotFoundError"}

\* whether the GIF save sits in a try whose except saves a static PNG
HasPng(g) == g \in {"projectile", "triangle"}

\* the colour list of the Fourier generator
Colors ==
    <<"cyan", "yellow", "magenta", "lime", "orange", "pink", "white", "aqua",
      "gold", "violet", "greenyellow", "coral">>

\* the directory a generator writes into
TargetDir(g, arg) == IF TakesOutputDir(g) THEN arg ELSE "."

IdleGen ==
    [name |-> "none", arg |-> "none", nterms |-> 0, gpc |-> "idle",
     attempts |-> <<>>, written |-> <<>>, made |-> FALSE, triples |-> 0,
     exc |-> "none"]

\* a generator function entered with output_dir = arg, n_terms = n
EnterGen(g, arg, n) ==
    [IdleGen EXCEPT !.name = g, !.arg = arg, !.nterms = n, !.gpc = "build"]

(***************************************************************************)
(* Imports of the CLI script                                               *)
(***************************************************************************)
\* the importable modules of package src.simulations and the names each defines
\* (lorenz-attractor.py has no importable module name; there is no
\* double_pendulum.py or lorenz_attractor.py in the package)
ModuleDefs ==
    [mandelbrot_zoom |->
        {"mandelbrot_numpy", "create_color_palette", "create_mandelbrot_animation", "main"},
     wave_function_collapse |-> {"create_wave_function_collapse_animation", "main"},
     fourier_series |-> {"create_fourier_visualization", "main"},
     trig_challenge |-> {"create_trig_challenge_animation"},
     sine_circle_trace |-> {"create_sine_circle_trace_animation"},
     sine_cosine_circle_trace |-> {"create_sine_cosine_circle_animation"},
     trig_functions_circle_trace |-> {"create_trig_functions_animation"},
     advanced_trig_functions_trace |-> {"create_advanced_trig_functions_animation"},
     hyperbolic_paraboloid |-> {"create_hyperbolic_paraboloid"},
     projectile_angle_challenge |-> {"create_projectile_challenge"},
     triangle_angle_challenge |-> {"create_triangle_angle_challenge"}]

\* from src.simulations.<module> import <name>, as the CLI script writes them
CliImports ==
    <<[module |-> "double_pendulum", name |-> "create_double_pendulum_animation"],
      [module |-> "lorenz_attractor", name |-> "create_lorenz_attractor_animation"],
      [module |-> "mandelbrot_zoom", name |-> "create_mandelbrot_zoom_animation"],
      [module |-> "wave_function_collapse",
       name |-> "create_wave_function_collapse_animation"],
      [module |-> "fourier_series", name |-> "create_fourier_visualization"],
      [module |-> "trig_challenge", name |-> "create_trig_challenge_animation"]>>

\* the imports of the package's __init__.py, run by the first import of a submodule
PackageImports ==
    CliImports \o
    <<[module |-> "sine_circle_trace", name |-> "create_sine_circle_trace_animation"]>>

\* the exception one import statement raises, or "none"
ImportError(imp) ==
    IF imp.module \notin DOMAIN ModuleDefs THEN "ModuleNotFoundError"
    ELSE IF imp.name \notin ModuleDefs[imp.module] THEN "ImportError"
    ELSE "none"

\* the exception raised by the first failing import of a sequence, or "none"
FirstImportError(imports) ==
    LET bad == {i \in 1..Len(imports) : ImportError(imports[i]) # "none"}
    IN  IF bad = {} THEN "none"
        ELSE ImportError(imports[CHOOSE i \in bad : \A j \in bad : i <= j])

\* rcParams['figure.dpi'] once the modules of all six CLI generators are loaded
ImportedDpi ==
    LET set == {i \in 1..Len(CliGenerators) : ModuleDpi(CliGenerators[i]) # 0}
    IN  IF set = {} THEN 100
        ELSE ModuleDpi(CliGenerators[CHOOSE i \in set : \A j \in set : j <= i])

(***************************************************************************)
(* File system and save attempts                                           *)
(***************************************************************************)
\* os.makedirs(d) without exist_ok: an existing directory raises
MakedirsNoExistOk(ds, d) ==
    [dirs |-> ds \cup {d}, exc |-> IF d \in ds THEN "FileExistsError" ELSE "none"]

\* os.makedirs(d, exist_ok=True)
Makedirs(ds, d) == [dirs |-> ds \cup {d}, exc |-> "none"]

\* the possible outcomes of one save attempt
SaveOutcomes == {"ok"} \cup Exc

\* building the circle/vector/dot triples: for i in range(n_terms): colors[i]
BuildTriples(n) ==
    IF n <= Len(Colors) THEN [triples |-> n, exc |-> "none"]
    ELSE [triples |-> Len(Colors), exc |-> "IndexError"]

(***************************************************************************)
(* Initial states                                                          *)
(***************************************************************************)
NoFigures == [g \in Generators |-> 0]

LorenzIdle ==
    /\ xs = <<>> /\ ys = <<>> /\ zs = <<>>
    /\ li = 0 /\ writes = <<>> /\ reads = <<>>

\* no animation callback or pixel loop has run
Idle == [pc |-> "idle"]

SimIdle ==
    /\ mandel = Idle /\ pendulumAnim = Idle /\ lorenzAnim = Idle
    /\ fourierAnim = Idle /\ triangleAnim = Idle /\ waveAnim = Idle

\* the command line and the file system play no part
CliIdle ==
    /\ flags = {} /\ output = "output" /\ terms = 8
    /\ idx = 1 /\ calls = <<>>
    /\ dirs0 = {"."} /\ dirs = dirs0 /\ files = {}
    /\ rcDpi = 100 /\ figDpi = NoFigures
    /\ stdout = {} /\ gen = IdleGen /\ exc = "none"

\* python examples/generate_animations.py <flags>: nothing is imported yet
InitScript ==
    /\ entry = "script"
    /\ pc = "start"
    /\ flags \in SUBSET Flags
    /\ output \in OutputDirs
    /\ terms = 8
    /\ rcDpi = 100
    /\ gen = IdleGen

\* main() entered with the names it calls bound to the repository's generator
\* functions, whose modules are therefore loaded
InitMain ==
    /\ entry = "main"
    /\ pc = "main"
    /\ flags \in SUBSET Flags
    /\ output \in OutputDirs
    /\ terms \in (IF flags = {} \/ "all" \in flags \/ "fourier" \in flags
                  THEN 1..MaxTerms ELSE {8})
    /\ rcDpi = ImportedDpi
    /\ gen = IdleGen

\* one generator function called on its own, its module loaded
InitDirect ==
    /\ entry = "direct"
    /\ pc = "in_gen"
    /\ flags = {}
    /\ output = "output"
    /\ terms = 8
    /\ \E g \in Generators :
         /\ rcDpi = (IF ModuleDpi(g) # 0 THEN ModuleDpi(g) ELSE 100)
         /\ \E d \in OutputDirs, n \in 1..MaxTerms :
              gen = EnterGen(g, IF TakesOutputDir(g) THEN d ELSE "none",
                             IF g = "fourier" THEN n ELSE 0)

Init ==
    /\ InitScript \/ InitMain \/ InitDirect
    /\ idx = 1
    /\ calls = <<>>
    /\ dirs0 \in {{"."}, {".", output}, {".", gen.arg} \ {"none"}}
    /\ dirs = dirs0
    /\ files = {}
    /\ figDpi = NoFigures
    /\ stdout = {}
    /\ exc = "none"
    /\ LorenzIdle
    /\ SimIdle

(***************************************************************************)
(* The CLI: module-level imports and main()                                *)
(***************************************************************************)
\* the script's import statements: the first one loads the package, whose
\* __init__ runs its own imports; any failure ends the process before main()
RunScript ==
    /\ pc = "start"
    /\ LET e == FirstImportError(PackageImports \o CliImports)
       IN  IF e # "none"
           THEN /\ pc' = "terminated"
                /\ exc' = e
                /\ rcDpi' = rcDpi
           ELSE /\ pc' = "main"
                /\ exc' = exc
                /\ rcDpi' = ImportedDpi
    /\ UNCHANGED <<entry, flags, output, terms, idx, calls, dirs0, dirs, files,
                   figDpi, stdout, gen>>
    /\ UNCHANGED <<lorenzVars, simVars>>

\* not any([args.pendulum, ..., args.all])
NoSelection(fl) == ~ \E f \in Flags : f \in fl

\* if args.all or args.<g>
Selected(fl, g) == "all" \in fl \/ g \in fl

\* the first if-block at or after block i whose condition holds (7: none)
NextSelected(fl, i) ==
    LET set == {j \in i..Len(CliGenerators) : Selected(fl, CliGenerators[j])}
    IN  IF set = {} THEN Len(CliGenerators) + 1
        ELSE CHOOSE j \in set : \A k \in set : j <= k

\* the positional arguments main() passes to generator g
CallArgs(g, out, n) == IF g = "fourier" THEN <<out, n>> ELSE <<out>>

\* main() with each call wrapped in a try/except that carries on
AfterCallContinue(how) == "dispatch"

\* where main() continues after a generator call ended with `how`
AfterCall(how) == IF how = "raised" THEN "terminated" ELSE "dispatch"

\* main() without the return after print_help()
MainEnterNoReturn ==
    /\ pc = "main"
    /\ stdout' = IF NoSelection(flags)
                 THEN stdout \cup {[msg |-> "help", gen |-> "main"]}
                 ELSE stdout
    /\ dirs' = Makedirs(dirs, output).dirs
    /\ pc' = "dispatch"
    /\ UNCHANGED <<entry, flags, output, terms, idx, calls, dirs0, files, rcDpi,
                   figDpi, gen, exc>>
    /\ UNCHANGED <<lorenzVars, simVars>>

\* parse_args, the help branch, os.makedirs(args.output, exist_ok=True)
MainEnter ==
    /\ pc = "main"
    /\ IF NoSelection(flags)
       THEN /\ stdout' = stdout \cup {[msg |-> "help", gen |-> "main"]}
            /\ pc' = "returned"
            /\ UNCHANGED <<dirs, exc>>
       ELSE LET r == Makedirs(dirs, output)
            IN  /\ dirs' = r.dirs
                /\ exc' = r.exc
                /\ pc' = IF r.exc = "none" THEN "dispatch" ELSE "terminated"
                /\ UNCHANGED stdout
    /\ UNCHANGED <<entry, flags, output, terms, idx, calls, dirs0, files, rcDpi,
                   figDpi, gen>>
    /\ UNCHANGED <<lorenzVars, simVars>>

\* the if-blocks of main() up to the next call, or the final message
MainDispatch ==
    /\ pc = "dispatch"
    /\ LET j == NextSelected(flags, idx)
       IN  IF j > Len(CliGenerators)
           THEN /\ stdout' = stdout \cup {[msg |-> "final", gen |-> "main"]}
                /\ pc' = "returned"
                /\ idx' = j
                /\ UNCHANGED <<calls, gen, exc>>
           ELSE LET g == CliGenerators[j]
                    args == CallArgs(g, output, terms)
                IN  /\ stdout' = stdout \cup {[msg |-> "banner", gen |-> g]}
                    /\ calls' = Append(calls, [gen |-> g, args |-> args])
                    /\ idx' = j
                    /\ IF Len(args) > Len(Params(g))
                       THEN /\ exc' = "TypeError"
                            /\ pc' = AfterCall("raised")
                            /\ gen' = gen
                       ELSE /\ exc' = exc
                            /\ pc' = "in_gen"
                            /\ gen' = EnterGen(g, args[1],
                                               IF Len(args) >= 2 THEN args[2] ELSE 0)
    /\ UNCHANGED <<entry, flags, output, terms, dirs0, dirs, files, rcDpi, figDpi>>
    /\ UNCHANGED <<lorenzVars, simVars>>

(***************************************************************************)
(* A generator function                                                    *)
(***************************************************************************)
\* figure and artists: the figure takes rcParams['figure.dpi'] as it is now
GenBuild ==
    /\ pc = "in_gen" /\ gen.gpc = "build"
    /\ LET g == gen.name
           b == IF g = "fourier" THEN BuildTriples(gen.nterms)
                ELSE [triples |-> 0, exc |-> "none"]
       IN  /\ rcDpi' = IF RuntimeDpi(g) # 0 THEN RuntimeDpi(g) ELSE rcDpi
           /\ figDpi' = [figDpi EXCEPT ![g] = rcDpi']
           /\ gen' = [gen EXCEPT
                        !.triples = b.triples,
                        !.exc = b.exc,
                        !.gpc = IF b.exc # "none" THEN "raised"
                                ELSE IF TakesOutputDir(g) THEN "makedirs"
                                ELSE "mp4"]
    /\ UNCHANGED <<entry, flags, output, terms, pc, idx, calls, dirs0, dirs, files,
                   stdout, exc>>
    /\ UNCHANGED <<lorenzVars, simVars>>

\* os.makedirs(output_dir, exist_ok=True)
GenMakedirs ==
    /\ pc = "in_gen" /\ gen.gpc = "makedirs"
    /\ LET r == Makedirs(dirs, gen.arg)
       IN  /\ dirs' = r.dirs
           /\ gen' = [gen EXCEPT
                        !.made = TRUE,
                        !.exc = r.exc,
                        !.gpc = IF r.exc = "none" THEN "mp4" ELSE "raised"]
    /\ UNCHANGED <<entry, flags, output, terms, pc, idx, calls, dirs0, files, rcDpi,
                   figDpi, stdout, exc>>
    /\ UNCHANGED <<lorenzVars, simVars>>

\* the GIF branch written as a finally clause: it also runs after a good save
AfterMp4Finally(g, o) ==
    IF Caught(g) # {} /\ (o = "ok" \/ o \in Caught(g)) THEN "gif"
    ELSE IF o = "ok" THEN "returned"
    ELSE "raised"

\* the generator's position after its MP4 save ended with outcome o
AfterMp4(g, o) ==
    IF o = "ok" THEN "returned"
    ELSE IF o \in Caught(g) THEN "gif"
    ELSE "raised"

\* a GIF save with no except clause around it
AfterGifNoPng(g, o) == IF o = "ok" THEN "returned" ELSE "raised"

\* the generator's position after its GIF save ended with outcome o
AfterGif(g, o) ==
    IF o = "ok" THEN "returned"
    ELSE IF HasPng(g) THEN "png"
    ELSE "raised"

\* one save attempt of format fmt ending with outcome o, continuing at `next`
Attempt(fmt, o, next, note) ==
    /\ gen' = [gen EXCEPT
                 !.attempts = Append(@, [fmt |-> fmt, outcome |-> o]),
                 !.written = IF o = "ok" THEN Append(@, fmt) ELSE @,
                 !.exc = IF next = "raised" THEN o ELSE @,
                 !.gpc = next]
    /\ files' = IF o = "ok"
                THEN files \cup {[dir |-> TargetDir(gen.name, gen.arg),
                                  gen |-> gen.name, fmt |-> fmt]}
                ELSE files
    /\ stdout' = IF o = "ok" THEN stdout \cup {[msg |-> "saved", gen |-> gen.name]}
                 ELSE IF next # "raised" THEN stdout \cup {[msg |-> note, gen |-> gen.name]}
                 ELSE stdout
    /\ UNCHANGED <<entry, flags, output, terms, pc, idx, calls, dirs0, dirs, rcDpi,
                   figDpi, exc>>
    /\ UNCHANGED <<lorenzVars, simVars>>

\* ani.save(output_file, writer=FFMpegWriter) and its except clause
SaveMp4 ==
    /\ pc = "in_gen" /\ gen.gpc = "mp4"
    /\ \E o \in SaveOutcomes : Attempt("mp4", o, AfterMp4(gen.name, o), "gif_instead")

\* ani.save(gif_file, writer='pillow') and, where present, its except clause
SaveGif ==
    /\ pc = "in_gen" /\ gen.gpc = "gif"
    /\ \E o \in SaveOutcomes : Attempt("gif", o, AfterGif(gen.name, o), "png_instead")

\* plt.savefig(<static png>)
SavePng ==
    /\ pc = "in_gen" /\ gen.gpc = "png"
    /\ \E o \in SaveOutcomes :
         Attempt("png", o, IF o = "ok" THEN "returned" ELSE "raised", "none")

\* the generator function returns to, or raises into, its caller
GenFinish ==
    /\ pc = "in_gen" /\ gen.gpc \in {"returned", "raised"}
    /\ exc' = IF gen.gpc = "raised" THEN gen.exc ELSE exc
    /\ IF entry = "main"
       THEN /\ pc' = AfterCall(gen.gpc)
            /\ idx' = IF gen.gpc = "returned" THEN idx + 1 ELSE idx
       ELSE /\ pc' = IF gen.gpc = "raised" THEN "terminated" ELSE "returned"
            /\ idx' = idx
    /\ UNCHANGED <<entry, flags, output, terms, calls, dirs0, dirs, files, rcDpi,
                   figDpi, stdout, gen>>
    /\ UNCHANGED <<lorenzVars, simVars>>

Next ==
    \/ RunScript
    \/ MainEnter
    \/ MainDispatch
    \/ GenBuild
    \/ GenMakedirs
    \/ SaveMp4
    \/ SaveGif
    \/ SavePng
    \/ GenFinish

Spec == Init /\ [][Next]_vars

(***************************************************************************)
(* The Lorenz generator's Euler integration                                *)
(*                                                                         *)
(* Floating point values are carried in fixed point, Scale units to 1.0;   *)
(* the arrays are indexed from 0 as in the source.                         *)
(***************************************************************************)
\* the length of the trajectory arrays (8000 in the source, scaled down here)
num_steps == 120

\* fixed-point resolution of the model's arithmetic
Scale == 1000

\* an iteration reading the slot it is about to fill
PrevSame(i) == i

\* the index whose values an iteration reads: xs[i-1], ys[i-1], zs[i-1]
Prev(i) == i - 1

\* dx = sigma * (y - x) * dt, with sigma = 10.0, dt = 0.01
EulerDx(x, y, z) == (10 * (y - x)) \div 100

\* dy = (x * (rho - z) - y) * dt, with rho = 28.0
EulerDy(x, y, z) == (((x * (28 * Scale - z)) \div Scale) - y) \div 100

\* dz = (x * y - beta * z) * dt, with beta = 8.0 / 3.0
EulerDz(x, y, z) == (((x * y) \div Scale) - ((8 * z) \div 3)) \div 100

\* np.zeros(num_steps) three times, then xs[0], ys[0], zs[0] = 0.1, 0.0, 0.0
InitLorenz ==
    /\ entry = "euler"
    /\ pc = "loop"
    /\ xs = [i \in 0..(num_steps - 1) |-> IF i = 0 THEN Scale \div 10 ELSE 0]
    /\ ys = [i \in 0..(num_steps - 1) |-> 0]
    /\ zs = [i \in 0..(num_steps - 1) |-> 0]
    /\ li = 1
    /\ writes = [i \in 0..(num_steps - 1) |->
                   IF i = 0 THEN [x |-> 1, y |-> 1, z |-> 1]
                   ELSE [x |-> 0, y |-> 0, z |-> 0]]
    /\ reads = [i \in 0..(num_steps - 1) |-> {}]
    /\ flags = {} /\ output = "output" /\ terms = 8
    /\ idx = 1 /\ calls = <<>>
    /\ dirs0 = {"."} /\ dirs = dirs0 /\ files = {}
    /\ rcDpi = 100 /\ figDpi = NoFigures
    /\ stdout = {} /\ gen = IdleGen /\ exc = "none"
    /\ SimIdle

\* one iteration of: for i in range(1, num_steps)
LorenzStep ==
    /\ pc = "loop"
    /\ li < num_steps
    /\ LET x == xs[Prev(li)]
           y == ys[Prev(li)]
           z == zs[Prev(li)]
       IN  /\ xs' = [xs EXCEPT ![li] = x + EulerDx(x, y, z)]
           /\ ys' = [ys EXCEPT ![li] = y + EulerDy(x, y, z)]
           /\ zs' = [zs EXCEPT ![li] = z + EulerDz(x, y, z)]
    /\ writes' = [writes EXCEPT ![li] = [x |-> @.x + 1, y |-> @.y + 1, z |-> @.z + 1]]
    /\ reads' = [reads EXCEPT ![li] = @ \cup {Prev(li)}]
    /\ li' = li + 1
    /\ UNCHANGED <<cliVars, simVars>>

SpecLorenz == InitLorenz /\ [][LorenzStep]_vars

\* C10: the three trajectory arrays always have the same length num_steps; the
\* Euler loop assigns index i of all three together, for i = 1..num_steps-1 in
\* increasing order, each from the values at index i-1 only, so that after the
\* loop every index 0..num_steps-1 has been assigned exactly once.
C10_EulerLoopShape ==
    entry = "euler" =>
        /\ DOMAIN xs = 0..(num_steps - 1)
        /\ DOMAIN ys = DOMAIN xs
        /\ DOMAIN zs = DOMAIN xs
        /\ li \in 1..num_steps
        /\ \A i \in 0..(num_steps - 1) :
             writes[i] = IF i < li THEN [x |-> 1, y |-> 1, z |-> 1]
                         ELSE [x |-> 0, y |-> 0, z |-> 0]
        /\ \A i \in 1..(li - 1) :
             /\ reads[i] = {i - 1}
             /\ xs[i] = xs[i-1] + EulerDx(xs[i-1], ys[i-1], zs[i-1])
             /\ ys[i] = ys[i-1] + EulerDy(xs[i-1], ys[i-1], zs[i-1])
             /\ zs[i] = zs[i-1] + EulerDz(xs[i-1], ys[i-1], zs[i-1])

\* the loop has ended with the last index holding a computed point
C10_Witness ==
    /\ entry = "euler"
    /\ li = num_steps
    /\ writes[num_steps - 1] = [x |-> 1, y |-> 1, z |-> 1]
    /\ xs[num_steps - 1] # 0

(***************************************************************************)
(* Properties of the CLI and of the generators' save logic (under Spec)    *)
(***************************************************************************)
\* the generators main() is to call for these flags, in the order of its if-blocks
SelectedSeq(fl) == SelectSeq(CliGenerators, LAMBDA g : Selected(fl, g))

EncoderOrIoFailure == exc \in Exc \cup {"IndexError"}

\* C1: for every flag combination with at least one selection flag, main()
\* invokes a generator iff its flag or --all is set, each selected generator
\* exactly once with args.output as the output directory, and in the fixed
\* order pendulum, lorenz, mandelbrot, quantum, fourier, trig (stated for
\* every run of main() that was not ended by a failing save or figure build).
C1_SelectedInvokedInOrder ==
    (/\ entry = "main"
     /\ flags # {}
     /\ pc \in {"returned", "terminated"}
     /\ ~ EncoderOrIoFailure)
    => /\ Len(calls) = Len(SelectedSeq(flags))
       /\ \A i \in 1..Len(calls) :
            /\ calls[i].gen = SelectedSeq(flags)[i]
            /\ calls[i].args[1] = output

\* C2: in every generator, when the MP4/ffmpeg encoder is unavailable at save
\* time, the generator falls back to GIF, logs the substitution and does not
\* raise because of the missing encoder.
C2_FallbackInEveryGenerator ==
    (/\ Len(gen.attempts) >= 1
     /\ gen.attempts[1].fmt = "mp4"
     /\ gen.attempts[1].outcome \in EncoderMissing)
    => /\ [msg |-> "gif_instead", gen |-> gen.name] \in stdout
       /\ Len(gen.attempts) = 1 => gen.gpc = "gif"

\* C3: starting the CLI reaches the argument parser and the selected generator:
\* no import of the script or of the package fails, and no generator rejects
\* the output-directory argument the CLI passes.
C3_CliReachesGenerators ==
    flags # {} =>
        /\ exc \notin {"ModuleNotFoundError", "ImportError", "TypeError"}
        /\ entry = "script" => pc # "terminated"

\* C4: the figure DPI in effect when the wave-function, Fourier or
\* trig-challenge generator builds its figure in one CLI run is the one the
\* loaded modules set, whether or not the Mandelbrot generator ran earlier.
C4_DpiIndependentOfEarlierGenerators ==
    entry = "main" =>
        \A g \in {"quantum", "fourier", "trig"} : figDpi[g] \in {0, ImportedDpi}

\* C5: with none of the seven selection flags set (whatever --output and
\* --terms are), main() prints the help text and returns without creating the
\* output directory and without invoking any generator.
C5_NoSelectionShowsHelp ==
    (entry = "main" /\ flags = {} /\ pc # "main")
    => /\ pc = "returned"
       /\ [msg |-> "help", gen |-> "main"] \in stdout
       /\ [msg |-> "final", gen |-> "main"] \notin stdout
       /\ dirs = dirs0
       /\ calls = <<>>
       /\ files = {}
       /\ gen = IdleGen
       /\ exc = "none"

\* main() has returned from the help branch, --output and --terms were given
\* and the output directory still does not exist
C5_Witness ==
    /\ entry = "main" /\ flags = {} /\ pc = "returned"
    /\ output = "custom" /\ terms = 3
    /\ output \notin dirs

\* C6: when a selected generator raises an exception that no encoder fallback
\* handles, main() terminates there: no later selected generator is invoked
\* and the final message is not printed.
C6_RaiseTerminatesMain ==
    entry = "main" =>
        /\ gen.gpc = "raised" =>
             /\ pc \in {"in_gen", "terminated"}
             /\ calls[Len(calls)].gen = gen.name
        /\ exc # "none" =>
             /\ pc = "terminated"
             /\ calls[Len(calls)].gen = CliGenerators[idx]
             /\ [msg |-> "final", gen |-> "main"] \notin stdout

\* a generator raised out of its save while a later generator was selected
C6_Witness ==
    /\ entry = "main" /\ pc = "terminated"
    /\ gen.gpc = "raised" /\ gen.exc \in Exc
    /\ exc = gen.exc
    /\ NextSelected(flags, Len(calls) + 1) <= Len(CliGenerators)

\* C7: the output directory is created if missing, an existing one is not an
\* error, and this happens before any output file is written: main() creates
\* args.output before the first generator is invoked, and every generator that
\* takes output_dir creates it before its first save attempt.
C7_DirectoryBeforeOutput ==
    /\ (entry = "main" /\ calls # <<>>) => output \in dirs
    /\ (gen.attempts # <<>> /\ TakesOutputDir(gen.name)) =>
           (gen.made /\ gen.arg \in dirs)
    /\ \A f \in files : f.dir \in dirs
    /\ exc # "FileExistsError"
    /\ gen.exc # "FileExistsError"

\* main() found the directory missing, and a generator called by it has since
\* written a file there
C7_Witness ==
    /\ entry = "main"
    /\ output \notin dirs0
    /\ gen.made
    /\ \E f \in files : f.dir = output

\* C8: a generator invocation that returns normally has written exactly one
\* artifact: the MP4 if that save succeeded, otherwise the GIF, otherwise (in
\* the projectile and triangle generators) the static PNG; no fallback format
\* is written after a successful MP4 save.
C8_ExactlyOneArtifact ==
    LET a == gen.attempts
        order == <<"mp4", "gif", "png">>
    IN  /\ Len(gen.written) <= 1
        /\ Len(a) <= (IF HasPng(gen.name) THEN 3 ELSE 2)
        /\ \A i \in 1..Len(a) : a[i].fmt = order[i]
        /\ \A i \in 1..(Len(a) - 1) : a[i].outcome # "ok"
        /\ gen.gpc = "returned" =>
             /\ Len(a) >= 1
             /\ a[Len(a)].outcome = "ok"
             /\ gen.written = <<a[Len(a)].fmt>>
             /\ {f \in files : f.gen = gen.name} =
                  {[dir |-> TargetDir(gen.name, gen.arg), gen |-> gen.name,
                    fmt |-> a[Len(a)].fmt]}

\* a generator returned after its MP4 save failed and its GIF save succeeded
C8_Witness ==
    /\ gen.gpc = "returned"
    /\ gen.written = <<"gif">>
    /\ Len(gen.attempts) = 2

\* C9: for every n >= 1 given as --terms, the Fourier generator builds exactly
\* n circle/vector/dot triples without raising.
C9_TriplesForEveryN ==
    (gen.name = "fourier" /\ gen.gpc \notin {"idle", "build"})
    => /\ gen.triples = gen.nterms
       /\ gen.exc # "IndexError"

(***************************************************************************)
(* mandelbrot_numpy: the escape-time iteration over the pixel grid         *)
(*                                                                         *)
(* Coordinates and z are fixed point (Scale units to 1.0).  A result entry *)
(* is [base, smooth]: the value base - log(log|z|)/log 2, with smooth the  *)
(* z that the correction is computed from, or <<>> for no correction.      *)
(***************************************************************************)
\* largest grid side tried
MaxGrid == 2

\* largest max_iters tried
MaxIters == 3

\* the view centres tried: (0, 0), (-0.5, 0), (0.5, 0)
Centers == {<<0, 0>>, <<0 - (Scale \div 2), 0>>, <<Scale \div 2, 0>>}

\* the zoom widths tried: 1.0, 3.0, 4.0
ZoomWidths == {Scale, 3 * Scale, 4 * Scale}

\* np.linspace(a, b, n)[j]
Linspace(a, b, n, j) == IF n = 1 THEN a ELSE a + ((j * (b - a)) \div (n - 1))

\* x[j]: zoom_width/2 on either side of center_x, w samples
GridX(m, j) == Linspace(m.center_x - (m.zoom_width \div 2),
                        m.center_x + (m.zoom_width \div 2), m.w, j)

\* y[i]: zoom_height = zoom_width * h / w, zoom_height/2 on either side of center_y
GridY(m, i) ==
    LET zoom_height == (m.zoom_width * m.h) \div m.w
    IN  Linspace(m.center_y - (zoom_height \div 2),
                 m.center_y + (zoom_height \div 2), m.h, i)

\* c = complex(x[j], y[i])
PixelC(m, i, j) == <<GridX(m, j), GridY(m, i)>>

\* z*z + c
ZStep(z, c) == <<((z[1] * z[1] - z[2] * z[2]) \div Scale) + c[1],
                 ((2 * z[1] * z[2]) \div Scale) + c[2]>>

\* z.real*z.real + z.imag*z.imag >= 4.0
Escaped(z) == z[1] * z[1] + z[2] * z[2] >= 4 * Scale * Scale

\* the pixels of the h x w grid
Pixels(m) == (0..(m.h - 1)) \X (0..(m.w - 1))

\* an entry of np.zeros((h, w))
ZeroEntry == [base |-> 0, smooth |-> <<>>]

\* a loop that also runs k = max_iters
InnerRangeInclusive(max_iters) == 0..max_iters

\* range(max_iters)
InnerRange(max_iters) == 0..(max_iters - 1)

\* the call mandelbrot_numpy(h, w, max_iters, center_x, center_y, zoom_width),
\* at the first pixel with z = 0.0 and the inner loop about to start
InitMandel ==
    /\ entry = "mandelbrot_numpy"
    /\ pc = "call"
    /\ \E h \in 1..MaxGrid, w \in 1..MaxGrid, n \in 0..MaxIters,
          ctr \in Centers, zw \in ZoomWidths :
         mandel = [pc |-> "inner", h |-> h, w |-> w, max_iters |-> n,
                   center_x |-> ctr[1], center_y |-> ctr[2], zoom_width |-> zw,
                   i |-> 0, j |-> 0, k |-> 0, z |-> <<0, 0>>,
                   result |-> [p \in (0..(h - 1)) \X (0..(w - 1)) |-> ZeroEntry],
                   iters |-> [p \in (0..(h - 1)) \X (0..(w - 1)) |-> 0],
                   writers |-> [p \in (0..(h - 1)) \X (0..(w - 1)) |-> {}]]
    /\ CliIdle
    /\ LorenzIdle
    /\ pendulumAnim = Idle /\ lorenzAnim = Idle /\ fourierAnim = Idle
    /\ triangleAnim = Idle /\ waveAnim = Idle

\* one iteration of: for k in range(max_iters), with its break
MandelIterate ==
    /\ mandel.pc = "inner"
    /\ mandel.k \in InnerRange(mandel.max_iters)
    /\ LET p == <<mandel.i, mandel.j>>
           z == ZStep(mandel.z, PixelC(mandel, mandel.i, mandel.j))
       IN  IF Escaped(z)
           THEN mandel' = [mandel EXCEPT
                    !.z = z,
                    !.iters[p] = @ + 1,
                    !.result[p] = [base |-> mandel.k + 1, smooth |-> z],
                    !.writers[p] = @ \cup {[i |-> mandel.i, j |-> mandel.j,
                                            k |-> mandel.k]},
                    !.pc = "break"]
           ELSE mandel' = [mandel EXCEPT
                    !.z = z,
                    !.iters[p] = @ + 1,
                    !.k = @ + 1]
    /\ UNCHANGED <<cliVars, lorenzVars, pendulumAnim, lorenzAnim, fourierAnim,
                   triangleAnim, waveAnim>>

\* the inner loop has ended (exhausted or left by break): the next pixel of
\* for i in range(h): for j in range(w), or return result
MandelNextPixel ==
    /\ \/ mandel.pc = "break"
       \/ mandel.pc = "inner" /\ mandel.k \notin InnerRange(mandel.max_iters)
    /\ IF mandel.j + 1 < mandel.w
       THEN mandel' = [mandel EXCEPT !.pc = "inner", !.j = @ + 1,
                                     !.k = 0, !.z = <<0, 0>>]
       ELSE IF mandel.i + 1 < mandel.h
            THEN mandel' = [mandel EXCEPT !.pc = "inner", !.i = @ + 1, !.j = 0,
                                          !.k = 0, !.z = <<0, 0>>]
            ELSE mandel' = [mandel EXCEPT !.pc = "returned"]
    /\ UNCHANGED <<cliVars, lorenzVars, pendulumAnim, lorenzAnim, fourierAnim,
                   triangleAnim, waveAnim>>

NextMandel == MandelIterate \/ MandelNextPixel

SpecMandel == InitMandel /\ [][NextMandel]_vars

\* the first k >= from, k < max_iters, at which the orbit of c (at z before
\* iteration from) reaches |z|^2 >= 4, or -1 when there is none
RECURSIVE FirstEscapeFrom(_, _, _, _)
FirstEscapeFrom(c, z, from, max_iters) ==
    IF from >= max_iters THEN -1
    ELSE IF Escaped(ZStep(z, c)) THEN from
         ELSE FirstEscapeFrom(c, ZStep(z, c), from + 1, max_iters)

\* the first iteration at which the orbit of pixel p escapes, or -1
FirstEscape(m, p) ==
    FirstEscapeFrom(PixelC(m, p[1], p[2]), <<0, 0>>, 0, m.max_iters)

\* the pixels whose inner loop has ended
DonePixels(m) ==
    {p \in Pixels(m) :
        \/ m.pc = "returned"
        \/ p[1] < m.i
        \/ p[1] = m.i /\ p[2] < m.j
        \/ p = <<m.i, m.j>> /\ m.pc = "break"}

\* C11: when mandelbrot_numpy returns, every pixel whose orbit does not reach
\* |z|^2 >= 4 within max_iters iterations holds the value max_iters.
C11_NonEscapingHoldMaxIters ==
    (entry = "mandelbrot_numpy" /\ mandel.pc = "returned") =>
        \A p \in Pixels(mandel) :
            FirstEscape(mandel, p) = -1
                => mandel.result[p] = [base |-> mandel.max_iters, smooth |-> <<>>]

\* C12: for every pixel the inner loop performs at most max_iters iterations
\* and stops at the first iteration k (0 <= k < max_iters) at which the orbit
\* has escaped; the pixel's entry is written at most once, at that k, by the
\* iteration of that pixel and of no other.
C12_InnerLoopPerPixel ==
    entry = "mandelbrot_numpy" =>
        \A p \in Pixels(mandel) :
            LET first == FirstEscape(mandel, p)
            IN  /\ mandel.iters[p] <= mandel.max_iters
                /\ Cardinality(mandel.writers[p]) <= 1
                /\ \A wr \in mandel.writers[p] :
                     /\ <<wr.i, wr.j>> = p
                     /\ wr.k \in 0..(mandel.max_iters - 1)
                     /\ wr.k = first
                     /\ mandel.iters[p] = wr.k + 1
                     /\ mandel.result[p].base = wr.k + 1
                /\ mandel.writers[p] = {} => mandel.result[p] = ZeroEntry
                /\ p \in DonePixels(mandel) =>
                     IF first = -1
                     THEN mandel.writers[p] = {} /\ mandel.iters[p] = mandel.max_iters
                     ELSE mandel.writers[p] # {}

\* the function has returned a grid with a pixel that escaped after its first
\* iteration and a pixel whose loop ran all max_iters iterations without escaping
C12_Witness ==
    /\ entry = "mandelbrot_numpy"
    /\ mandel.pc = "returned"
    /\ \E p \in Pixels(mandel) : \E wr \in mandel.writers[p] : wr.k >= 1
    /\ \E p \in Pixels(mandel) :
         /\ mandel.writers[p] = {}
         /\ mandel.max_iters >= 2
         /\ mandel.iters[p] = mandel.max_iters

(***************************************************************************)
(* The save steps of the two challenge generators (under Spec)             *)
(***************************************************************************)
\* C13: in the projectile and triangle challenge generators the save step
\* tries MP4, then GIF, then the static PNG, in that order; a later format is
\* attempted only after the previous attempt raised, and an exception raised
\* by the MP4 or the GIF attempt never reaches the caller.
C13_ChallengeSaveChain ==
    gen.name \in {"projectile", "triangle"} =>
        LET a == gen.attempts
        IN  /\ \A i \in 1..Len(a) : i <= 3 /\ a[i].fmt = <<"mp4", "gif", "png">>[i]
            /\ gen.gpc \in {"gif", "png"} => Len(a) >= 1
            /\ gen.gpc = "gif" => a[Len(a)] \in [fmt : {"mp4"}, outcome : Exc]
            /\ gen.gpc = "png" => a[Len(a)] \in [fmt : {"gif"}, outcome : Exc]
            /\ \A i \in 2..Len(a) : a[i - 1].outcome \in Exc
            /\ \A i \in 1..Len(a) :
                 (a[i].fmt \in {"mp4", "gif"} /\ a[i].outcome \in Exc)
                    => /\ gen.exc # a[i].outcome \/ Len(a) = 3
                       /\ i = Len(a) => gen.gpc \notin {"raised", "returned"}
            /\ (gen.gpc = "raised" \/ exc # "none") =>
                  /\ Len(a) = 3
                  /\ gen.exc = a[3].outcome

\* the triangle generator returned after its MP4 and GIF saves both raised and
\* the static PNG was written
C13_Witness ==
    /\ gen.name = "triangle"
    /\ gen.gpc = "returned"
    /\ Len(gen.attempts) = 3
    /\ gen.attempts[1] = [fmt |-> "mp4", outcome |-> "PermissionError"]
    /\ gen.attempts[2] = [fmt |-> "gif", outcome |-> "RuntimeError"]
    /\ gen.written = <<"png">>
    /\ exc = "none"

(***************************************************************************)
(* The double pendulum animation: init() and update(frame)                 *)
(*                                                                         *)
(* The integrated solution is not computed: Sample(a, f) stands for the    *)
(* value a[f] of solution array a.  FuncAnimation calls init() and then    *)
(* update for the frames of range(frames) in order; it may call init()     *)
(* again, and then starts the frames over.                                 *)
(***************************************************************************)
\* how often FuncAnimation calls init() at most
MaxInits == 2

\* t_max = 30.0
pendulum_t_max == 30

\* fps = 30
pendulum_fps == 30

\* frames = int(t_max * fps)
pendulum_frames == pendulum_t_max * pendulum_fps

\* len(t) = len(sol) = len(x1) = len(y1) = len(x2) = len(y2)
SolutionLen == pendulum_frames

\* whether a[f] is a valid index into a solution array
ValidIndex(f) == 0 - SolutionLen <= f /\ f < SolutionLen

\* a[f], with Python's negative indices
Sample(a, f) == [array |-> a, index |-> IF f < 0 THEN f + SolutionLen ELSE f]

\* an init() that leaves the history lists as they are
KeepHistory(history) == history

\* x2_history.clear(), y2_history.clear()
ClearHistory(history) == <<>>

\* the figure is built: empty history lists, nothing drawn, init() not yet called
InitPendulum ==
    /\ entry = "pendulum_animation"
    /\ pc = "call"
    /\ pendulumAnim = [pc |-> "created", frame |-> 0, inits |-> 0,
                       x2_history |-> <<>>, y2_history |-> <<>>,
                       line |-> <<>>, trace |-> <<<<>>, <<>>>>]
    /\ CliIdle
    /\ LorenzIdle
    /\ mandel = Idle /\ lorenzAnim = Idle /\ fourierAnim = Idle
    /\ triangleAnim = Idle /\ waveAnim = Idle

\* init()
PendulumInit ==
    /\ pendulumAnim.pc \in {"created", "drawing"}
    /\ pendulumAnim.inits < MaxInits
    /\ pendulumAnim' = [pendulumAnim EXCEPT
            !.pc = "drawing",
            !.frame = 0,
            !.inits = @ + 1,
            !.line = <<>>,
            !.trace = <<<<>>, <<>>>>,
            !.x2_history = ClearHistory(@),
            !.y2_history = ClearHistory(@)]
    /\ UNCHANGED <<cliVars, lorenzVars, mandel, lorenzAnim, fourierAnim,
                   triangleAnim, waveAnim>>

\* update(frame), for the next frame of range(frames)
PendulumUpdate ==
    /\ pendulumAnim.pc = "drawing"
    /\ pendulumAnim.frame < pendulum_frames
    /\ LET frame == pendulumAnim.frame
       IN  IF ~ ValidIndex(frame)
           THEN pendulumAnim' = [pendulumAnim EXCEPT !.pc = "IndexError"]
           ELSE LET x1f == Sample("x1", frame)
                    y1f == Sample("y1", frame)
                    x2f == Sample("x2", frame)
                    y2f == Sample("y2", frame)
                    xh  == Append(pendulumAnim.x2_history, x2f)
                    yh  == Append(pendulumAnim.y2_history, y2f)
                IN  pendulumAnim' = [pendulumAnim EXCEPT
                        !.frame = @ + 1,
                        !.line = <<<<0, x1f, x2f>>, <<0, y1f, y2f>>>>,
                        !.x2_history = xh,
                        !.y2_history = yh,
                        !.trace = <<xh, yh>>]
    /\ UNCHANGED <<cliVars, lorenzVars, mandel, lorenzAnim, fourierAnim,
                   triangleAnim, waveAnim>>

NextPendulum == PendulumInit \/ PendulumUpdate

SpecPendulum == InitPendulum /\ [][NextPendulum]_vars

\* C14: init clears the trace history; after init followed by update calls for
\* frames 0..k in increasing order (k < 900) the trace holds exactly k+1
\* points, the j-th being the second bob's position at frame j; every frame
\* index in 0..frames-1 is a valid index into the solution arrays.
C14_TraceFollowsSecondBob ==
    entry = "pendulum_animation" =>
        LET p == pendulumAnim
        IN  /\ p.pc # "IndexError"
            /\ pendulum_frames = 900
            /\ \A f \in 0..(pendulum_frames - 1) : ValidIndex(f)
            /\ p.frame \in 0..pendulum_frames
            /\ Len(p.x2_history) = p.frame
            /\ Len(p.y2_history) = p.frame
            /\ \A j \in 1..p.frame :
                 /\ p.x2_history[j] = [array |-> "x2", index |-> j - 1]
                 /\ p.y2_history[j] = [array |-> "y2", index |-> j - 1]
            /\ p.trace = <<p.x2_history, p.y2_history>>

\* init() has been called a second time after frames were drawn, and frames
\* 0..9 have been drawn since
C14_Witness ==
    /\ entry = "pendulum_animation"
    /\ pendulumAnim.inits = 2
    /\ pendulumAnim.frame = 10
    /\ Len(pendulumAnim.x2_history) = 10

(***************************************************************************)
(* The Lorenz animation: init() and update(frame)                          *)
(*                                                                         *)
(* The path and the marker are held as indices into xs, ys, zs (whose      *)
(* length is num_steps): line is the sequence of indices displayed, point  *)
(* the index of the marker, -1 when none is set.                           *)
(***************************************************************************)
\* fps = 30 in update
lorenz_fps == 30

\* total_seconds = 30 in update
lorenz_total_seconds == 30

\* total_frames = fps * total_seconds
total_frames == lorenz_fps * lorenz_total_seconds

\* duration = 30 where the animation is created
lorenz_duration == 30

\* frames = fps * duration, the frames FuncAnimation draws
lorenz_frames == lorenz_fps * lorenz_duration

\* an update that never takes the outro branch
PhaseNoOutro(frame) ==
    IF 20 * frame < total_frames THEN "intro" ELSE "main"

\* the branch of update taken at progress = frame / total_frames:
\* progress < 0.05, else progress < 0.95, else
Phase(frame) ==
    IF 20 * frame < total_frames THEN "intro"
    ELSE IF 100 * frame < 95 * total_frames THEN "main"
    ELSE "outro"

\* int(main_progress * num_steps) with main_progress = (progress - 0.05) / 0.9:
\* the exact quotient truncated; where the exact quotient is a whole number
\* the floating-point product can lie just below it and truncate to one less
PathIndexValues(frame) ==
    LET num == (20 * frame - total_frames) * num_steps
        den == 18 * total_frames
        q   == num \div den
    IN  IF num % den = 0 /\ q > 0 THEN {q - 1, q} ELSE {q}

\* an update without the clamp of line 164
NoClamp(i) == i

\* max(1, min(i, num_steps - 1))
ClampIndex(i) ==
    LET m == IF i < num_steps - 1 THEN i ELSE num_steps - 1
    IN  IF m > 1 THEN m ELSE 1

\* the indices of xs[:i]
SliceTo(i) ==
    LET stop == IF i < 0 THEN (IF num_steps + i > 0 THEN num_steps + i ELSE 0)
                ELSE IF i < num_steps THEN i ELSE num_steps
    IN  [n \in 1..stop |-> n - 1]

\* the index xs[i] refers to
ArrayIndex(i) == IF i < 0 THEN num_steps + i ELSE i

\* the animation is created: nothing drawn, init() not yet called
InitLorenzAnim ==
    /\ entry = "lorenz_animation"
    /\ pc = "call"
    /\ lorenzAnim = [pc |-> "created", frame |-> 0, phase |-> "none", i |-> 0,
                     line |-> <<>>, point |-> -1]
    /\ CliIdle
    /\ LorenzIdle
    /\ mandel = Idle /\ pendulumAnim = Idle /\ fourierAnim = Idle
    /\ triangleAnim = Idle /\ waveAnim = Idle

\* init()
LorenzAnimInit ==
    /\ lorenzAnim.pc = "created"
    /\ lorenzAnim' = [lorenzAnim EXCEPT !.pc = "drawing", !.line = <<>>, !.point = -1]
    /\ UNCHANGED <<cliVars, lorenzVars, mandel, pendulumAnim, fourierAnim,
                   triangleAnim, waveAnim>>

\* update(frame) in the intro branch: the starting point, no line
LorenzIntro ==
    /\ lorenzAnim.pc = "drawing"
    /\ lorenzAnim.frame < lorenz_frames
    /\ Phase(lorenzAnim.frame) = "intro"
    /\ lorenzAnim' = [lorenzAnim EXCEPT
            !.frame = @ + 1, !.phase = "intro",
            !.point = ArrayIndex(0),
            !.line = <<>>]
    /\ UNCHANGED <<cliVars, lorenzVars, mandel, pendulumAnim, fourierAnim,
                   triangleAnim, waveAnim>>

\* update(frame) in the main branch: the path xs[:i] and the marker at xs[i-1]
LorenzMain ==
    /\ lorenzAnim.pc = "drawing"
    /\ lorenzAnim.frame < lorenz_frames
    /\ Phase(lorenzAnim.frame) = "main"
    /\ \E i0 \in PathIndexValues(lorenzAnim.frame) :
         LET i == ClampIndex(i0)
         IN  lorenzAnim' = [lorenzAnim EXCEPT
                 !.frame = @ + 1, !.phase = "main",
                 !.i = i,
                 !.line = SliceTo(i),
                 !.point = ArrayIndex(i - 1)]
    /\ UNCHANGED <<cliVars, lorenzVars, mandel, pendulumAnim, fourierAnim,
                   triangleAnim, waveAnim>>

\* update(frame) in the outro branch: the full path and the marker at xs[-1]
LorenzOutro ==
    /\ lorenzAnim.pc = "drawing"
    /\ lorenzAnim.frame < lorenz_frames
    /\ Phase(lorenzAnim.frame) = "outro"
    /\ lorenzAnim' = [lorenzAnim EXCEPT
            !.frame = @ + 1, !.phase = "outro",
            !.line = [n \in 1..num_steps |-> n - 1],
            !.point = ArrayIndex(-1)]
    /\ UNCHANGED <<cliVars, lorenzVars, mandel, pendulumAnim, fourierAnim,
                   triangleAnim, waveAnim>>

NextLorenzAnim == LorenzAnimInit \/ LorenzIntro \/ LorenzMain \/ LorenzOutro

SpecLorenzAnim == InitLorenzAnim /\ [][NextLorenzAnim]_vars

\* the frame the last update drew
LastFrame == lorenzAnim.frame - 1

\* C15: for every frame 0..899 exactly one of the three phases applies (intro:
\* progress < 0.05, main: 0.05 <= progress < 0.95, outro: otherwise); in the
\* main phase the path index i satisfies 1 <= i <= num_steps-1, the displayed
\* path is the prefix xs[:i], and the marker is at index i-1, the last
\* displayed point.
C15_PhasesAndPathIndex ==
    (entry = "lorenz_animation" /\ lorenzAnim.frame >= 1) =>
        LET a == lorenzAnim
        IN  /\ lorenz_frames = 900 /\ total_frames = 900
            /\ LastFrame \in 0..899
            /\ a.phase \in {"intro", "main", "outro"}
            /\ a.phase = "intro" <=> LastFrame < 45
            /\ a.phase = "main" <=> (45 <= LastFrame /\ LastFrame < 855)
            /\ a.phase = "outro" <=> 855 <= LastFrame
            /\ a.phase = "main" =>
                 /\ 1 <= a.i /\ a.i <= num_steps - 1
                 /\ Len(a.line) = a.i
                 /\ \A n \in 1..a.i : a.line[n] = n - 1
                 /\ a.point = a.i - 1
                 /\ a.point = a.line[Len(a.line)]

\* a main-phase frame has drawn a path with the clamp's lower limit in force
\* (frame 45, i = 1) or with a path well inside the array
C15_Witness ==
    /\ entry = "lorenz_animation"
    /\ lorenzAnim.phase = "main"
    /\ LastFrame = 45
    /\ lorenzAnim.i = 1
    /\ lorenzAnim.line = <<0>>

\* C16: over frames processed in increasing order the number of trajectory
\* points displayed never decreases: it is 0 during the intro, non-decreasing
\* during the main phase, and the full num_steps in every outro frame, so the
\* complete attractor is displayed by the final frame.
C16_DisplayedPointsNeverDecrease ==
    [][entry = "lorenz_animation" =>
         /\ Len(lorenzAnim'.line) >= Len(lorenzAnim.line)
         /\ lorenzAnim'.frame - 1 < 45 => Len(lorenzAnim'.line) = 0
         /\ lorenzAnim'.frame - 1 >= 855 =>
              lorenzAnim'.line = [n \in 1..num_steps |-> n - 1]
         /\ lorenzAnim'.frame = 900 => Len(lorenzAnim'.line) = num_steps]_vars

\* the final frame has been drawn and shows the whole trajectory
C16_Witness ==
    /\ entry = "lorenz_animation"
    /\ lorenzAnim.frame = 900
    /\ lorenzAnim.phase = "outro"
    /\ Len(lorenzAnim.line) = num_steps

(***************************************************************************)
(* The Fourier animation: init() and update(frame)                         *)
(*                                                                         *)
(* Positions are symbolic: a position is the sequence of the vectors       *)
(* summed from the origin, the origin being <<>>; a vector is its radius,  *)
(* its frequency and the frame whose time t it is evaluated at.  A radius  *)
(* [num, den] stands for num / (pi * den).                                 *)
(***************************************************************************)
\* fps = 30
fourier_fps == 30

\* duration = 30
fourier_duration == 30

\* frames = fps * duration
fourier_frames == fourier_fps * fourier_duration

\* (0, 0)
Origin == <<>>

\* radius 0
ZeroRadius == [num |-> 0, den |-> 1]

\* radius = 4 / (np.pi * (2*n-1))
Radius(n) == [num |-> 4, den |-> 2 * n - 1]

\* freq = 2*n-1
Freq(n) == 2 * n - 1

\* (prev_x + radius * cos(freq * t), prev_y + radius * sin(freq * t)), with
\* t = frame_norm * time_stretch * 2 * pi
Tip(prev, n, frame) ==
    Append(prev, [radius |-> Radius(n), freq |-> Freq(n), t |-> frame])

\* the tip of vector number k (k = 0: the starting position) when the chain
\* starts at the origin
RECURSIVE ChainTip(_, _)
ChainTip(k, frame) ==
    IF k = 0 THEN Origin ELSE Tip(ChainTip(k - 1, frame), k, frame)

\* a phase-in that can show no term at all
VisibleTermsNoPlusOne(n_terms, frame) ==
    LET scaled == IF 25 * frame >= 10 * fourier_frames THEN n_terms
                  ELSE (n_terms * 25 * frame) \div (10 * fourier_frames)
    IN  IF scaled < n_terms THEN scaled ELSE n_terms

\* min(n_terms, int(n_terms * min(1.0, frame_norm * 2.5)) + 1), with
\* frame_norm = frame / frames
VisibleTerms(n_terms, frame) ==
    LET scaled == IF 25 * frame >= 10 * fourier_frames THEN n_terms
                  ELSE (n_terms * 25 * frame) \div (10 * fourier_frames)
    IN  IF scaled + 1 < n_terms THEN scaled + 1 ELSE n_terms

\* circles drawn around the origin whatever the previous tip
CenterAtOrigin(prev) == Origin

\* circles[i].center = (prev_x, prev_y)
CircleCenter(prev) == prev

\* the artists as created: n_terms circles of radius 0 at the origin, empty
\* vectors, dots and connector; creating more circles than there are colours
\* raises IndexError
InitFourierAnim ==
    /\ entry = "fourier_animation"
    /\ pc = "call"
    /\ \E n \in 1..MaxTerms :
         fourierAnim =
           [pc |-> IF BuildTriples(n).exc = "none" THEN "created" ELSE "IndexError",
            n_terms |-> n, frame |-> 0, visible_terms |-> 0,
            circles |-> [i \in 0..(BuildTriples(n).triples - 1) |->
                           [center |-> Origin, radius |-> ZeroRadius]],
            lines |-> [i \in 0..(BuildTriples(n).triples - 1) |-> <<>>],
            dots |-> [i \in 0..(BuildTriples(n).triples - 1) |-> <<>>],
            connector |-> <<>>]
    /\ CliIdle
    /\ LorenzIdle
    /\ mandel = Idle /\ pendulumAnim = Idle /\ lorenzAnim = Idle
    /\ triangleAnim = Idle /\ waveAnim = Idle

\* init()
FourierInit ==
    /\ fourierAnim.pc = "created"
    /\ fourierAnim' = [fourierAnim EXCEPT
            !.pc = "drawing",
            !.circles = [i \in DOMAIN @ |-> [center |-> Origin, radius |-> ZeroRadius]],
            !.lines = [i \in DOMAIN @ |-> <<>>],
            !.dots = [i \in DOMAIN @ |-> <<>>],
            !.connector = <<>>]
    /\ UNCHANGED <<cliVars, lorenzVars, mandel, pendulumAnim, lorenzAnim,
                   triangleAnim, waveAnim>>

\* update(frame), for the next frame of range(frames)
FourierUpdate ==
    /\ fourierAnim.pc = "drawing"
    /\ fourierAnim.frame < fourier_frames
    /\ LET frame == fourierAnim.frame
           n_terms == fourierAnim.n_terms
           visible_terms == VisibleTerms(n_terms, frame)
           \* prev_x, prev_y at the start of loop iteration i
           prev(i) == ChainTip(i, frame)
           shown == 0..(visible_terms - 1)
           hidden == visible_terms..(n_terms - 1)
       IN  fourierAnim' = [fourierAnim EXCEPT
               !.frame = @ + 1,
               !.visible_terms = visible_terms,
               !.circles = [i \in DOMAIN @ |->
                   IF i \in shown
                   THEN [center |-> CircleCenter(prev(i)), radius |-> Radius(i + 1)]
                   ELSE IF i \in hidden
                        THEN [center |-> Origin, radius |-> ZeroRadius]
                        ELSE @[i]],
               !.lines = [i \in DOMAIN @ |->
                   IF i \in shown THEN <<prev(i), Tip(prev(i), i + 1, frame)>>
                   ELSE IF i \in hidden THEN <<>> ELSE @[i]],
               !.dots = [i \in DOMAIN @ |->
                   IF i \in shown THEN <<Tip(prev(i), i + 1, frame)>>
                   ELSE IF i \in hidden THEN <<>> ELSE @[i]],
               !.connector = [k \in 1..(visible_terms + 1) |-> prev(k - 1)]]
    /\ UNCHANGED <<cliVars, lorenzVars, mandel, pendulumAnim, lorenzAnim,
                   triangleAnim, waveAnim>>

NextFourierAnim == FourierInit \/ FourierUpdate

SpecFourierAnim == InitFourierAnim /\ [][NextFourierAnim]_vars

\* C17: for n_terms >= 1 the number of visible terms satisfies
\* 1 <= visible_terms <= n_terms at every frame, never decreases as the frame
\* number increases, and equals n_terms at every frame with
\* frame/frames >= 0.4.
C17_VisibleTermsPhaseIn ==
    [][(entry = "fourier_animation" /\ fourierAnim'.frame = fourierAnim.frame + 1) =>
         /\ 1 <= fourierAnim'.visible_terms
         /\ fourierAnim'.visible_terms <= fourierAnim.n_terms
         /\ fourierAnim'.visible_terms >= fourierAnim.visible_terms
         /\ 10 * fourierAnim.frame >= 4 * fourier_frames =>
              fourierAnim'.visible_terms = fourierAnim.n_terms]_vars

\* with 8 terms, frame 180 (frame/frames = 0.2) shows 5 of them and a later
\* state shows all 8 from frame 360 on: here the state after frame 180
C17_Witness ==
    /\ entry = "fourier_animation"
    /\ fourierAnim.n_terms = 8
    /\ fourierAnim.frame = 181
    /\ fourierAnim.visible_terms = 5

\* C18: after each update the circles with index < visible_terms have radius
\* 4/(pi*(2n-1)) and form a chain (the first centred at the origin, each next
\* one centred at the previous vector's tip), every circle with index >=
\* visible_terms has radius 0 and empty vector and dot data, and the connector
\* polyline has exactly visible_terms + 1 vertices starting at the origin.
C18_CircleChain ==
    (entry = "fourier_animation" /\ fourierAnim.frame >= 1) =>
        LET a == fourierAnim
            v == a.visible_terms
        IN  /\ DOMAIN a.circles = 0..(a.n_terms - 1)
            /\ \A i \in 0..(a.n_terms - 1) :
                 IF i < v
                 THEN /\ a.circles[i].radius = [num |-> 4, den |-> 2 * (i + 1) - 1]
                      /\ Len(a.lines[i]) = 2
                      /\ Len(a.dots[i]) = 1
                      /\ a.dots[i][1] = a.lines[i][2]
                      /\ a.circles[i].center = a.lines[i][1]
                      /\ a.circles[i].center =
                            (IF i = 0 THEN <<>> ELSE a.lines[i - 1][2])
                      /\ a.lines[i][2] =
                            Append(a.circles[i].center,
                                   [radius |-> a.circles[i].radius,
                                    freq |-> 2 * (i + 1) - 1, t |-> a.frame - 1])
                 ELSE /\ a.circles[i].radius = [num |-> 0, den |-> 1]
                      /\ a.lines[i] = <<>>
                      /\ a.dots[i] = <<>>
            /\ Len(a.connector) = v + 1
            /\ a.connector[1] = <<>>
            /\ \A k \in 1..v : a.connector[k + 1] = a.lines[k - 1][2]

\* an update has drawn some but not all of the circles of a 12-term series
C18_Witness ==
    /\ entry = "fourier_animation"
    /\ fourierAnim.n_terms = 12
    /\ fourierAnim.frame >= 1
    /\ fourierAnim.visible_terms = 7
    /\ Len(fourierAnim.connector) = 8
    /\ fourierAnim.circles[7].radius = ZeroRadius

(***************************************************************************)
(* The triangle challenge animation: update(frame) and problem_idx         *)
(***************************************************************************)
\* fps = 30
triangle_fps == 30

\* duration = 15
triangle_duration == 15

\* frames = fps * duration
triangle_frames == triangle_fps * triangle_duration

\* len(problems)
NumProblems == 3

\* an update that never changes problem
NeverSwitch(frame) == FALSE

\* frame % (fps * 5) == 0
IsSwitchFrame(frame) == frame % (triangle_fps * 5) = 0

\* (frame // (fps * 5)) % len(problems)
ProblemAt(frame) == (frame \div (triangle_fps * 5)) % NumProblems

\* the figure is built with problem_idx = 0; no frame has been drawn
InitTriangle ==
    /\ entry = "triangle_animation"
    /\ pc = "call"
    /\ triangleAnim = [pc |-> "created", frame |-> 0, problem_idx |-> 0,
                       drawn |-> <<>>]
    /\ CliIdle
    /\ LorenzIdle
    /\ mandel = Idle /\ pendulumAnim = Idle /\ lorenzAnim = Idle
    /\ fourierAnim = Idle /\ waveAnim = Idle

\* init(): returns the artists, problem_idx is left as it is
TriangleInit ==
    /\ triangleAnim.pc = "created"
    /\ triangleAnim' = [triangleAnim EXCEPT !.pc = "drawing"]
    /\ UNCHANGED <<cliVars, lorenzVars, mandel, pendulumAnim, lorenzAnim,
                   fourierAnim, waveAnim>>

\* update(frame), for the next frame of range(frames): drawn records the
\* problem each frame displayed, problems[problem_idx]
TriangleUpdate ==
    /\ triangleAnim.pc = "drawing"
    /\ triangleAnim.frame < triangle_frames
    /\ LET frame == triangleAnim.frame
           shown == IF IsSwitchFrame(frame) THEN ProblemAt(frame)
                    ELSE triangleAnim.problem_idx
       IN  triangleAnim' = [triangleAnim EXCEPT
               !.frame = @ + 1,
               !.problem_idx = shown,
               !.drawn = Append(@, shown)]
    /\ UNCHANGED <<cliVars, lorenzVars, mandel, pendulumAnim, lorenzAnim,
                   fourierAnim, waveAnim>>

NextTriangle == TriangleInit \/ TriangleUpdate

SpecTriangle == InitTriangle /\ [][NextTriangle]_vars

\* C19: when frames are processed in increasing order from 0, frame f shows
\* the problem with index (f // 150) mod 3, so each of the three problems is
\* shown for exactly 150 consecutive frames and exactly once in the 450-frame
\* animation.
C19_ProblemSchedule ==
    entry = "triangle_animation" =>
        LET a == triangleAnim
        IN  /\ triangle_frames = 450
            /\ Len(a.drawn) = a.frame
            /\ \A f \in 0..(a.frame - 1) : a.drawn[f + 1] = (f \div 150) % 3
            /\ a.frame = 450 =>
                 \A p \in 0..2 :
                     {f \in 0..449 : a.drawn[f + 1] = p} = (150 * p)..(150 * p + 149)

\* all 450 frames have been drawn, the last one showing the third problem
C19_Witness ==
    /\ entry = "triangle_animation"
    /\ triangleAnim.frame = 450
    /\ triangleAnim.problem_idx = 2
    /\ triangleAnim.drawn[150] = 0
    /\ triangleAnim.drawn[151] = 1

(***************************************************************************)
(* The wave function animation: particle_data and bg_particle_data         *)
(*                                                                         *)
(* A particle structure is the record of its five lists.  Alpha values are *)
(* in hundredths.  The entries of x, y, colors and sizes are not computed: *)
(* each holds the identity <<frame added, number>> of the particle it was  *)
(* appended for (the drift added to x and y does not change it).  The      *)
(* random draws of one run are fixed when it starts.                       *)
(***************************************************************************)
\* fps = 30
wave_fps == 30

\* duration = 30
wave_duration == 30

\* frames = fps * duration
wave_frames == wave_fps * wave_duration

\* the background particles created with the figure: range(50)
InitialBackground == 50

\* np.random.randint(2, 5): particles per peak
PerPeakValues == 2..4

\* np.random.randint(1, 4): ambient particles per 15th frame
AmbientValues == 1..3

\* np.random.uniform(0.2, 0.5), in hundredths: a low, a middle and a high draw
BgAlphaValues == {20, 35, 49}

\* the local maxima of |states[target]|^2 above a tenth of the largest: the
\* density of the n-th oscillator eigenstate has n + 1 maxima
PeakCount(target) == target + 1

\* (0.3 < progress < 0.4) or (0.65 < progress < 0.75), and frame % 2 == 0,
\* with progress = frame / frames
AddsParticles(frame) ==
    /\ \/ 10 * frame > 3 * wave_frames /\ 10 * frame < 4 * wave_frames
       \/ 100 * frame > 65 * wave_frames /\ 100 * frame < 75 * wave_frames
    /\ frame % 2 = 0

\* target = 2 in the first collapse window, 4 in the second
Target(frame) ==
    IF 10 * frame > 3 * wave_frames /\ 10 * frame < 4 * wave_frames THEN 2 ELSE 4

\* {'x': [], 'y': [], 'colors': [], 'sizes': [], 'alpha': []}
EmptyParticles ==
    [x |-> <<>>, y |-> <<>>, colors |-> <<>>, sizes |-> <<>>, alpha |-> <<>>]

\* the five appends for count new particles added at `frame` with alpha a
AppendParticles(data, frame, count, a) ==
    LET ids == [k \in 1..count |-> <<frame, k>>]
    IN  [x |-> data.x \o ids, y |-> data.y \o ids,
         colors |-> data.colors \o ids, sizes |-> data.sizes \o ids,
         alpha |-> data.alpha \o [k \in 1..count |-> a]]

\* a filter that keeps a particle whose alpha has reached 0
KeepNonNegative(a) == a >= 0

\* if particle_data['alpha'][i] > 0: indices_to_keep.append(i)
Keep(a) == a > 0

\* the fade and filter block: every alpha reduced by step, then every list
\* rebuilt from indices_to_keep; skipped when the x list is empty
FadeAndFilter(data, step) ==
    IF data.x = <<>> THEN data
    ELSE LET faded == [i \in 1..Len(data.alpha) |-> data.alpha[i] - step]
             indices_to_keep ==
                 SelectSeq([i \in 1..Len(data.x) |-> i], LAMBDA i : Keep(faded[i]))
             kept(list) == [n \in 1..Len(indices_to_keep) |-> list[indices_to_keep[n]]]
         IN  [x |-> kept(data.x), y |-> kept(data.y), colors |-> kept(data.colors),
              sizes |-> kept(data.sizes), alpha |-> kept(faded)]

\* the figure is built: no particles, InitialBackground background particles
InitWave ==
    /\ entry = "wave_animation"
    /\ pc = "call"
    /\ \E perPeak \in PerPeakValues, ambient \in AmbientValues,
          a0 \in BgAlphaValues, a1 \in BgAlphaValues :
         waveAnim = [pc |-> "created", frame |-> 0,
                     perPeak |-> perPeak, ambient |-> ambient, bgAlpha |-> a1,
                     particle_data |-> EmptyParticles,
                     bg_particle_data |->
                        AppendParticles(EmptyParticles, -1, InitialBackground, a0)]
    /\ CliIdle
    /\ LorenzIdle
    /\ mandel = Idle /\ pendulumAnim = Idle /\ lorenzAnim = Idle
    /\ fourierAnim = Idle /\ triangleAnim = Idle

\* init(): reads bg_particle_data, changes neither structure
WaveInit ==
    /\ waveAnim.pc = "created"
    /\ waveAnim' = [waveAnim EXCEPT !.pc = "drawing"]
    /\ UNCHANGED <<cliVars, lorenzVars, mandel, pendulumAnim, lorenzAnim,
                   fourierAnim, triangleAnim>>

\* update(frame), for the next frame of range(frames): new particles, new
\* ambient particles, then the two fade and filter blocks
WaveUpdate ==
    /\ waveAnim.pc = "drawing"
    /\ waveAnim.frame < wave_frames
    /\ LET frame == waveAnim.frame
           added == IF AddsParticles(frame)
                    THEN AppendParticles(waveAnim.particle_data, frame,
                                         PeakCount(Target(frame)) * waveAnim.perPeak, 100)
                    ELSE waveAnim.particle_data
           bgAdded == IF frame % 15 = 0
                      THEN AppendParticles(waveAnim.bg_particle_data, frame,
                                           waveAnim.ambient, waveAnim.bgAlpha)
                      ELSE waveAnim.bg_particle_data
       IN  waveAnim' = [waveAnim EXCEPT
               !.frame = @ + 1,
               !.particle_data = FadeAndFilter(added, 5),
               !.bg_particle_data = FadeAndFilter(bgAdded, 1)]
    /\ UNCHANGED <<cliVars, lorenzVars, mandel, pendulumAnim, lorenzAnim,
                   fourierAnim, triangleAnim>>

NextWave == WaveInit \/ WaveUpdate

SpecWave == InitWave /\ [][NextWave]_vars

\* the lists of a particle structure are parallel: equal lengths, the entries
\* at one index belonging to one particle, and every alpha positive
Parallel(data) ==
    /\ Len(data.x) = Len(data.alpha)
    /\ Len(data.y) = Len(data.alpha)
    /\ Len(data.colors) = Len(data.alpha)
    /\ Len(data.sizes) = Len(data.alpha)
    /\ \A i \in 1..Len(data.alpha) :
         /\ data.y[i] = data.x[i]
         /\ data.colors[i] = data.x[i]
         /\ data.sizes[i] = data.x[i]
         /\ data.alpha[i] > 0

\* C20: after any sequence of update calls the five parallel lists of
\* particle_data (x, y, colors, sizes, alpha) have equal length, as do the
\* five lists of bg_particle_data, and every particle retained in either
\* structure has alpha > 0.
C20_ParticleListsParallel ==
    entry = "wave_animation" =>
        /\ Parallel(waveAnim.particle_data)
        /\ Parallel(waveAnim.bg_particle_data)

\* the update of frame 309 has just removed the particles added at frame 290
\* (their alpha reached 0) while keeping those added later, and background
\* particles are present
C20_Witness ==
    /\ entry = "wave_animation"
    /\ waveAnim.frame = 310
    /\ waveAnim.particle_data.x # <<>>
    /\ waveAnim.particle_data.x[1][1] = 292
    /\ waveAnim.particle_data.alpha[1] = 10
    /\ waveAnim.bg_particle_data.x # <<>>

====
